---- MODULE Spec2Model ----
(***************************************************************************)
(* Report lifecycle of the civic hazard reporting backend: the HTTP        *)
(* handlers of routes/reports (create, read, list, update, status          *)
(* transition, delete), the SupabaseService calls they make, the storage   *)
(* bucket, and the database triggers (status history, vote counters).      *)
(***************************************************************************)
EXTENDS Integers, Sequences, FiniteSets, TLC

\* ---------------------------------------------------------------- bounds
MaxReports == 2
MaxFiles == 2
MaxTime == 1
MaxHistory == 2
MaxCreates == 2
MaxVoteOps == 4

\* ------------------------------------------------------------ vocabulary
NULL == "null"

\* rows of public.users: two citizens and one authority
Users == {"c1", "c2", "a1"}

\* a well-formed uuid that is no row of public.users
GhostUser == "ghost"

role(u) == IF u = "a1" THEN "authority" ELSE "citizen"

Citizens == {u \in Users : role(u) = "citizen"}

requireRole_any(u, requiredRole) == TRUE

\* requireRole(requiredRole): the request goes on when the user has the role
requireRole(u, requiredRole) == role(u) = requiredRole

\* CREATE TYPE report_status
Statuses == {"pending", "in_progress", "resolved", "rejected"}

\* mimetypes that reach the handler after processImages (images are re-encoded to jpeg)
MimeTypes == {"image/jpeg", "video/mp4"}

\* file.mimetype.split('/')[1]
mimeSubtype(m) == IF m = "image/jpeg" THEN "jpeg" ELSE "mp4"

\* file.mimetype.startsWith('image/')
isImage(m) == m = "image/jpeg"

\* latitude / longitude values, whole degrees
Coords == {0, 1}

FileLists == UNION {[1..n -> MimeTypes] : n \in 0..MaxFiles}

VARIABLES
  reports,    \* public.reports: id -> row
  history,    \* public.report_status_history: report id -> sequence of rows
  store,      \* keys of the 'reports' storage bucket
  votes,      \* public.report_votes: <<report id, user>> -> vote_type
  upvotes,    \* reports.upvotes: id -> counter
  downvotes,  \* reports.downvotes: id -> counter
  now,        \* Date.now()
  nextId,     \* next report id to be generated
  calls,      \* number of POST /reports calls that wrote to the bucket
  voteOps,    \* number of statements run on report_votes
  accounts,   \* auth.users of the identity provider: the registered emails
  profiles,   \* public.users rows created by registration: email -> role
  inflight,   \* the request of a citizen between its pending check and its write
  tokens,     \* public.push_tokens: token -> user_id
  res         \* the last response sent, with the request it answers

vars == <<reports, history, store, votes, upvotes, downvotes, now, nextId, calls, voteOps,
          accounts, profiles, inflight, tokens, res>>

authVars == <<accounts, profiles>>

voteVars == <<votes, upvotes, downvotes, voteOps>>

\* ------------------------------------------------------- storage service
\* `${req.user.id}/${Date.now()}_${i}.${file.mimetype.split('/')[1]}`,
\* as the sequence of its '/'-separated segments
fileName(uid, t, i, m) ==
  <<uid, ToString(t) \o "_" \o ToString(i) \o "." \o mimeSubtype(m)>>

\* storage.from(bucket).getPublicUrl(path).publicUrl, as its '/'-separated segments
publicUrlOf(bucket, path) ==
  <<"https:", "", "project.supabase.co", "storage", "v1", "object", "public", bucket>> \o path

\* what JSON.stringify makes of a Promise object
PromiseJSON == <<"{}">>

\* SupabaseService.getPublicUrl is declared async: the caller that does not
\* await it holds a Promise, which the insert serialises
getPublicUrl(bucket, path, awaited) ==
  IF awaited THEN publicUrlOf(bucket, path) ELSE PromiseJSON

\* SupabaseService.uploadFile with upsert: false; ok is the storage outcome
uploadFile(s, path, ok) ==
  IF ok /\ path \notin s
    THEN [threw |-> FALSE, store |-> s \cup {path}]
    ELSE [threw |-> TRUE, store |-> s]

\* deleteFile that reports success without removing the key
deleteFile_keeps(s, path, ok) == [threw |-> ~ok, store |-> s]

\* SupabaseService.deleteFile; removing a key that is absent is no error
deleteFile(s, path, ok) ==
  IF ok
    THEN [threw |-> FALSE, store |-> s \ {path}]
    ELSE [threw |-> TRUE, store |-> s]

\* cleanup loop of the upload catch block: deletes uploadedFiles[k..],
\* swallowing the failures; failing is the set of positions whose removal fails
RECURSIVE cleanupUploaded(_, _, _, _)
cleanupUploaded(s, uploadedFiles, k, failing) ==
  IF k > Len(uploadedFiles) THEN s
  ELSE cleanupUploaded(deleteFile(s, uploadedFiles[k], k \notin failing).store,
                       uploadedFiles, k + 1, failing)

\* upload loop of POST /reports from file i on; inj.failAt is the position at which
\* the storage answers with an error (0: never), inj.cleanupFailing the positions
\* whose cleanup removal fails
RECURSIVE uploadLoop(_, _, _, _, _, _, _)
uploadLoop(s, uid, t, files, i, acc, inj) ==
  IF i > Len(files)
    THEN [threw |-> FALSE, store |-> s, uploadedFiles |-> acc.uploadedFiles,
          mediaUrls |-> acc.mediaUrls, mediaTypes |-> acc.mediaTypes]
    ELSE LET name == fileName(uid, t, i - 1, files[i])
             up == uploadFile(s, name, inj.failAt # i)
         IN IF up.threw
              THEN [threw |-> TRUE,
                    store |-> cleanupUploaded(up.store, acc.uploadedFiles, 1, inj.cleanupFailing),
                    uploadedFiles |-> acc.uploadedFiles,
                    mediaUrls |-> acc.mediaUrls, mediaTypes |-> acc.mediaTypes]
              ELSE uploadLoop(up.store, uid, t, files, i + 1,
                     [uploadedFiles |-> Append(acc.uploadedFiles, name),
                      mediaUrls |-> Append(acc.mediaUrls, getPublicUrl("reports", name, FALSE)),
                      mediaTypes |-> Append(acc.mediaTypes, files[i])],
                     inj)

Range(s) == {s[i] : i \in 1..Len(s)}

\* ------------------------------------------------------- error mapping
\* central errorHandler: err is [name, message, statusCode]; statusCode 0 is "not set"
errorHandler_status200(err, nodeEnv) ==
  [status |-> 200, success |-> FALSE, statusCode |-> 400, message |-> "Validation Error"]

\* errorHandler: res.status(statusCode).json({success: false, error: {message, statusCode}})
errorHandler(err, nodeEnv) ==
  LET mapped ==
        IF err.name = "ValidationError" THEN [statusCode |-> 400, message |-> "Validation Error"]
        ELSE IF err.name = "UnauthorizedError" \/ err.message = "Unauthorized"
          THEN [statusCode |-> 401, message |-> "Unauthorized"]
        ELSE IF err.name = "ForbiddenError" \/ err.message = "Forbidden"
          THEN [statusCode |-> 403, message |-> "Forbidden"]
        ELSE IF err.name = "NotFoundError" \/ err.message = "Not Found"
          THEN [statusCode |-> 404, message |-> "Not Found"]
        ELSE IF err.name = "ConflictError" \/ err.message = "Conflict"
          THEN [statusCode |-> 409, message |-> "Conflict"]
        ELSE IF err.statusCode # 0
          THEN [statusCode |-> err.statusCode, message |-> err.message]
        ELSE [statusCode |-> 500, message |-> "Internal Server Error"]
      message == IF nodeEnv = "production" /\ mapped.statusCode = 500
                   THEN "Internal Server Error" ELSE mapped.message
  IN [status |-> mapped.statusCode, success |-> FALSE,
      statusCode |-> mapped.statusCode, message |-> message]

\* process.env.NODE_ENV
NodeEnv == "production"

\* validate(schema): a body that fails the schema is handed to errorHandler
validationFailure == errorHandler([name |-> "ValidationError", message |-> "Validation Error", statusCode |-> 0], NodeEnv)

\* ------------------------------------------------------------ inference
\* outcomes of the POST to the inference service: a class label, or a failure
MLFailures == {"timeout", "refused"}

MLOutcomes == {"pothole"} \cup MLFailures

\* hazardTypeMapping[class] || 'other'
hazardTypeMapping(class) ==
  CASE class \in {"pothole", "damaged_road", "fallen_tree", "debris"} -> class
    [] class \in {"cattle", "cow", "animal"} -> "cattle_on_road"
    [] class \in {"flood", "water"} -> "flooding"
    [] class \in {"barrier", "fence"} -> "broken_barrier"
    [] class = "traffic_light" -> "traffic_light_issue"
    [] class \in {"sign", "signage"} -> "signage_damage"
    [] OTHER -> "other"

\* MLApiService.processMLResponse for a response with the single prediction (class, confidence)
processMLResponse(class, confidence) ==
  [hazardType |-> hazardTypeMapping(class), confidence |-> confidence]

\* confidence (in hundredths) the inference service reports for a detection
DetectionConfidence == 85

\* MLApiService.detectHazard: throws on timeout, refused connection or error status
detectHazard(outcome) ==
  IF outcome \in MLFailures
    THEN [threw |-> TRUE, hazardType |-> NULL, confidence |-> 0]
    ELSE [threw |-> FALSE] @@ processMLResponse(outcome, DetectionConfidence)

\* the ML step without its try/catch: a failed detection overwrites the defaults
mlDetection_nocatch(files, outcome) ==
  LET imageFiles == SelectSeq(files, isImage)
  IN IF Len(imageFiles) > 0
       THEN [hazardType |-> detectHazard(outcome).hazardType,
             confidence |-> detectHazard(outcome).confidence]
       ELSE [hazardType |-> "other", confidence |-> 0]

\* ML step of POST /reports: defaults 'other' / 0, overwritten by a
\* successful detection on the first image
mlDetection(files, outcome) ==
  LET imageFiles == SelectSeq(files, isImage)
      defaults == [hazardType |-> "other", confidence |-> 0]
  IN IF Len(imageFiles) > 0
       THEN LET mlResult == detectHazard(outcome)
            IN IF mlResult.threw THEN defaults
               ELSE [hazardType |-> mlResult.hazardType, confidence |-> mlResult.confidence]
       ELSE defaults

\* ----------------------------------------------------- database service
\* column defaults of public.reports for the columns an insert leaves out
insertDefaults == [status |-> "pending", assigned_to |-> NULL, resolution_notes |-> NULL]

\* SupabaseService.createReport: insert(...).select().single(); ok is the database outcome
createReport(rs, id, reportData, ok) ==
  IF ok
    THEN [threw |-> FALSE, reports |-> rs @@ (id :> (reportData @@ insertDefaults)), data |-> id]
    ELSE [threw |-> TRUE, reports |-> rs, data |-> 0]

\* a query that leaves out the user_id filter
rlsFilter_off(row, userId, isAuthority) == TRUE

\* "Apply RLS if not authority": query.eq('user_id', userId) unless isAuthority or no userId
rlsFilter(row, userId, isAuthority) ==
  (~isAuthority /\ userId # NULL) => (row.user_id = userId)

\* .single(): exactly one row, or an error
single(rows) ==
  IF Cardinality(rows) = 1
    THEN [error |-> FALSE, data |-> CHOOSE r \in rows : TRUE]
    ELSE [error |-> TRUE, data |-> 0]

\* SupabaseService.getReport: throws when .single() reports an error
getReport(rs, reportId, userId, isAuthority) ==
  LET rows == {r \in DOMAIN rs :
                 (r = reportId) /\ rlsFilter(rs[r], userId, isAuthority)}
      q == single(rows)
  IN [threw |-> q.error, data |-> q.data]

\* a request field that was not supplied (undefined)
ABSENT == "absent"

\* the columns an update statement sets: the supplied fields (undefined ones are not serialised)
suppliedColumns(updates) == {f \in DOMAIN updates : updates[f] # ABSENT}

\* the trigger without its IS DISTINCT FROM test: a row for every update
create_status_history_always(hist, id, old, new) ==
  [error |-> new.assigned_to = NULL,
   history |-> IF new.assigned_to = NULL THEN hist
               ELSE [hist EXCEPT ![id] = Append(@, [old_status |-> old.status,
                                                    new_status |-> new.status,
                                                    changed_by |-> new.assigned_to])]]

\* trigger create_report_status_history (AFTER UPDATE ON public.reports):
\* one row when the status changed; changed_by is NOT NULL
create_status_history(hist, id, old, new) ==
  IF old.status # new.status
    THEN IF new.assigned_to = NULL
           THEN [error |-> TRUE, history |-> hist]
           ELSE [error |-> FALSE,
                 history |-> [hist EXCEPT ![id] = Append(@, [old_status |-> old.status,
                                                             new_status |-> new.status,
                                                             changed_by |-> new.assigned_to])]]
    ELSE [error |-> FALSE, history |-> hist]

\* SupabaseService.updateReport: update(updates).eq('id', reportId)[.eq('user_id', userId)]
\* .select().single(); a failing statement changes nothing
updateReport(rs, hist, reportId, updates, userId, isAuthority, ok) ==
  LET cols == suppliedColumns(updates)
      rows == IF cols = {} THEN {}
              ELSE {r \in DOMAIN rs :
                      (r = reportId) /\ rlsFilter(rs[r], userId, isAuthority)}
      failed == [threw |-> TRUE, reports |-> rs, history |-> hist, data |-> 0]
  IN IF ~ok THEN failed
     ELSE IF rows = {} THEN failed
     ELSE LET old == rs[reportId]
              new == [f \in DOMAIN old |-> IF f \in cols THEN updates[f] ELSE old[f]]
              trg == create_status_history(hist, reportId, old, new)
          IN IF new.assigned_to \notin Users \cup {NULL} THEN failed
             ELSE IF trg.error THEN failed
             ELSE [threw |-> single(rows).error,
                   reports |-> [rs EXCEPT ![reportId] = new],
                   history |-> trg.history,
                   data |-> reportId]

\* restriction of a table keyed by report id to the reports other than id (ON DELETE CASCADE)
without(f, id) == [r \in DOMAIN f \ {id} |-> f[r]]

\* SupabaseService.deleteReport: delete().eq('id', reportId).eq('user_id', userId).select().single()
deleteReport(rs, reportId, userId, ok) ==
  LET rows == {r \in DOMAIN rs : r = reportId /\ rs[r].user_id = userId}
  IN IF ~ok \/ rows = {}
       THEN [threw |-> TRUE, deleted |-> {}]
       ELSE [threw |-> single(rows).error, deleted |-> rows]

\* an optional numeric query parameter that was not supplied (undefined)
NoNumber == -999

\* JavaScript truthiness of an optional numeric query parameter
truthy(x) == x # NoNumber /\ x # 0

\* metres spanned by one degree of latitude or longitude near the equator
DegreeMeters == 111000

Abs(x) == IF x < 0 THEN -x ELSE x

\* distance in metres between two whole-degree points (points one degree apart are
\* DegreeMeters apart; a diagonal is no shorter than its longer leg)
distanceMeters(lat1, lng1, lat2, lng2) ==
  LET dlat == Abs(lat1 - lat2)
      dlng == Abs(lng1 - lng2)
  IN DegreeMeters * (IF dlat > dlng THEN dlat ELSE dlng)

\* get_reports_within_radius: ids of the reports with ST_DWithin(center, point, radius_meters)
get_reports_within_radius(rs, center_lat, center_lng, radius_meters) ==
  {r \in DOMAIN rs :
     distanceMeters(center_lat, center_lng, rs[r].latitude, rs[r].longitude) <= radius_meters}

\* ordinal of a report_status value in the enum
statusOrdinal(st) ==
  CASE st = "pending" -> 1 [] st = "in_progress" -> 2 [] st = "resolved" -> 3 [] OTHER -> 4

\* sort key of a row: created_at follows the order of creation; ties are broken by id
sortKey(rs, r, sortBy) ==
  IF sortBy = "status" THEN statusOrdinal(rs[r].status) * (MaxReports + 1) + r ELSE r

\* the ids of a set of rows as a sequence ordered by sortBy
RECURSIVE ordered(_, _, _, _)
ordered(rs, ids, sortBy, ascending) ==
  IF ids = {} THEN <<>>
  ELSE LET first == CHOOSE r \in ids : \A q \in ids :
                      IF ascending THEN sortKey(rs, r, sortBy) <= sortKey(rs, q, sortBy)
                                   ELSE sortKey(rs, r, sortBy) >= sortKey(rs, q, sortBy)
       IN <<first>> \o ordered(rs, ids \ {first}, sortBy, ascending)

\* query.range(from, to) on an ordered result (0-based, inclusive)
range(seq, from, to) ==
  SubSeq(seq, from + 1, IF to + 1 > Len(seq) THEN Len(seq) ELSE to + 1)

\* SupabaseService.getReports: the page of report ids the query returns
getReports(rs, filters, userId, isAuthority) ==
  LET scoped == {r \in DOMAIN rs : rlsFilter(rs[r], userId, isAuthority)}
      byStatus == {r \in scoped : (filters.status # ABSENT) => (rs[r].status = filters.status)}
      spatial == truthy(filters.latitude) /\ truthy(filters.longitude) /\ truthy(filters.radius)
      reportIds == get_reports_within_radius(rs, filters.latitude, filters.longitude, filters.radius)
      page == filters.page
      limit == filters.limit
      offset == (page - 1) * limit
  IN IF spatial /\ reportIds = {}
       THEN [data |-> <<>>, ranQuery |-> FALSE]
       ELSE [data |-> range(ordered(rs, IF spatial THEN byStatus \cap reportIds ELSE byStatus,
                                    filters.sortBy, filters.sortOrder = "asc"),
                            offset, offset + limit - 1),
             ranQuery |-> TRUE]

\* ------------------------------------------------------------- handlers
\* ---------------------------------------------------------- notifications
Authorities == {u \in Users : role(u) = "authority"}

\* what happens to one push: delivered; the user has no push token; the token lookup
\* throws; the delivery of the chunk throws
PushOutcomes == {"ok", "notokens", "tokens", "push"}

\* NotificationService.sendPushNotification: every failure is caught and reported in
\* the result; a chunk whose delivery throws is logged and the result still says success
sendPushNotification(userId, outcome) ==
  [threw |-> FALSE,
   success |-> outcome \in {"ok", "push"},
   delivered |-> IF outcome = "ok" THEN {userId} ELSE {}]

noNotification == [threw |-> FALSE, sent |-> {}, delivered |-> {}]

\* statusMessages of notifyReportStatusChange: the target statuses that have a message
statusMessages == {"in_progress", "resolved", "rejected"}

notifyReportStatusChange_always(reportId, newStatus, userId, outcome) ==
  LET r == sendPushNotification(userId, outcome)
  IN [threw |-> r.threw, sent |-> {userId}, delivered |-> r.delivered]

\* NotificationService.notifyReportStatusChange: a push to userId when the new status
\* has a message
notifyReportStatusChange(reportId, newStatus, userId, outcome) ==
  IF newStatus \notin statusMessages THEN noNotification
  ELSE LET r == sendPushNotification(userId, outcome)
       IN [threw |-> r.threw, sent |-> {userId}, delivered |-> r.delivered]

\* outcomes of the notification of a new report: the lookup of the authorities
\* answers or fails, and one push outcome per authority
NotifyOutcomes == [lookup : BOOLEAN, push : [Authorities -> PushOutcomes]]

notifyDelivered == [lookup |-> TRUE, push |-> [a \in Authorities |-> "ok"]]

notifyAuthoritiesNewReport_throws(report, outcome) ==
  [threw |-> outcome # notifyDelivered, sent |-> {}, delivered |-> {}]

\* NotificationService.notifyAuthoritiesNewReport: one push per authority; a failed
\* lookup gives no authorities and nothing is sent
notifyAuthoritiesNewReport(report, outcome) ==
  IF ~outcome.lookup THEN noNotification
  ELSE [threw |-> \E a \in Authorities : sendPushNotification(a, outcome.push[a]).threw,
        sent |-> Authorities,
        delivered |-> UNION {sendPushNotification(a, outcome.push[a]).delivered : a \in Authorities}]

emptyTable == [r \in {} |-> NULL]

\* no request is between its check and its write
idle == [op |-> "none"]

Init ==
  /\ reports = emptyTable
  /\ history = emptyTable
  /\ store = {}
  /\ votes = emptyTable
  /\ upvotes = emptyTable
  /\ downvotes = emptyTable
  /\ now = 0
  /\ nextId = 1
  /\ calls = 0
  /\ voteOps = 0
  /\ accounts = {}
  /\ profiles = emptyTable
  /\ inflight = idle
  /\ tokens = emptyTable
  /\ res = [op |-> "none", code |-> 0, success |-> TRUE, statusCode |-> 0, message |-> ""]

\* the clock advances between requests
Tick ==
  /\ UNCHANGED <<authVars, inflight, tokens>>
  /\ now < MaxTime
  /\ now' = now + 1
  /\ UNCHANGED <<reports, history, store, votes, upvotes, downvotes, nextId, calls, voteOps, res>>

noFiles_never(files) == FALSE

\* !req.files || req.files.length === 0
noFiles(files) == Len(files) = 0

noAcc == [uploadedFiles |-> <<>>, mediaUrls |-> <<>>, mediaTypes |-> <<>>]

\* POST /api/reports by the authenticated user u
CreateReport(u, valid, files, lat, lng, inj, ml, insertOk, notify) ==
  /\ UNCHANGED <<authVars, inflight, tokens>>
  /\ calls < MaxCreates
  /\ nextId <= MaxReports
  /\ UNCHANGED <<votes, now, voteOps>>
  /\ LET req == [op |-> "create", actor |-> u, nfiles |-> Len(files),
                 inference |-> IF SelectSeq(files, isImage) = <<>> THEN "skipped"
                               ELSE IF ml \in MLFailures THEN "failed" ELSE "answered"]
         unchanged == UNCHANGED <<reports, history, upvotes, downvotes, nextId>>
     IN
     IF ~valid
       THEN /\ res' = req @@ [code |-> validationFailure.status, success |-> validationFailure.success,
                   statusCode |-> validationFailure.statusCode, stage |-> "validation",
                              message |-> validationFailure.message, uploaded |-> {}, id |-> 0]
            /\ store' = store
            /\ unchanged
     ELSE IF noFiles(files)
       THEN /\ res' = req @@ [code |-> 400, success |-> FALSE, statusCode |-> 400, stage |-> "nofiles",
                              message |-> "At least one image or video is required",
                              uploaded |-> {}, id |-> 0]
            /\ store' = store
            /\ unchanged
     ELSE LET up == uploadLoop(store, u, now, files, 1, noAcc, inj)
          IN
          IF up.threw
            THEN /\ res' = req @@ [code |-> 500, success |-> FALSE, statusCode |-> 500, stage |-> "upload",
                                   message |-> "Failed to upload media files",
                                   uploaded |-> Range(up.uploadedFiles), id |-> 0,
                                   cleanupFailed |-> {up.uploadedFiles[k] :
                                       k \in inj.cleanupFailing \cap 1..Len(up.uploadedFiles)}]
                 /\ store' = up.store
                 /\ unchanged
            ELSE LET det == mlDetection(files, ml)
                     reportData == [user_id |-> u,
                                    title |-> "t1",
                                    hazard_type |-> det.hazardType,
                                    confidence_score |-> det.confidence,
                                    media_url |-> up.mediaUrls,
                                    media_type |-> up.mediaTypes,
                                    latitude |-> lat,
                                    longitude |-> lng]
                     ins == createReport(reports, nextId, reportData, insertOk)
                 IN
                 /\ store' = up.store
                 /\ reports' = ins.reports
                 /\ IF ins.threw
                      THEN /\ res' = req @@ [code |-> 500, success |-> FALSE, statusCode |-> 500, stage |-> "insert",
                                             message |-> "database error",
                                             uploaded |-> Range(up.uploadedFiles), id |-> 0]
                           /\ UNCHANGED <<history, upvotes, downvotes, nextId>>
                      ELSE /\ LET n == notifyAuthoritiesNewReport(ins.reports[ins.data], notify)
                                IN res' = IF n.threw
                                            THEN req @@ [code |-> 500, success |-> FALSE, statusCode |-> 500, stage |-> "notify",
                                                         message |-> "notification error",
                                                         uploaded |-> Range(up.uploadedFiles),
                                                         id |-> 0, sent |-> n.sent,
                                                         delivered |-> n.delivered]
                                            ELSE req @@ [code |-> 201, success |-> TRUE, statusCode |-> 0, stage |-> "done",
                                                         message |-> "Report created successfully",
                                                         uploaded |-> Range(up.uploadedFiles),
                                                         id |-> ins.data, sent |-> n.sent,
                                                         delivered |-> n.delivered]
                           /\ history' = history @@ (ins.data :> <<>>)
                           /\ upvotes' = upvotes @@ (ins.data :> 0)
                           /\ downvotes' = downvotes @@ (ins.data :> 0)
                           /\ nextId' = nextId + 1
  /\ calls' = IF store' = store THEN calls ELSE calls + 1

\* GET /api/reports/:id
ReadReport(u, id) ==
  /\ UNCHANGED <<authVars, inflight, tokens>>
  /\ LET isAuthority == role(u) = "authority"
         report == getReport(reports, id, u, isAuthority)
         req == [op |-> "read", actor |-> u, id |-> id]
     IN res' = IF report.threw
                 THEN req @@ [code |-> 500, success |-> FALSE, statusCode |-> 500, message |-> "Failed to fetch report", data |-> 0]
               ELSE IF report.data = 0
                 THEN req @@ [code |-> 404, success |-> FALSE, statusCode |-> 404, message |-> "Report not found", data |-> 0]
               ELSE req @@ [code |-> 200, success |-> TRUE, statusCode |-> 0, message |-> "", data |-> report.data]
  /\ UNCHANGED <<reports, history, store, votes, upvotes, downvotes, now, nextId, calls, voteOps>>

\* reportQuerySchema: an optional number is absent or within its limits
inLimits(x, min, max) == x = NoNumber \/ (x >= min /\ x <= max)

\* reportQuerySchema accepts the query (latitude, longitude, radius, page, limit)
reportQuerySchema(query) ==
  /\ inLimits(query.latitude, -90, 90)
  /\ inLimits(query.longitude, -180, 180)
  /\ inLimits(query.radius, 100, 50000)
  /\ query.page >= 1
  /\ query.limit >= 1 /\ query.limit <= 100

\* the validated query: radius defaults to 5000
validated(query) == [query EXCEPT !.radius = IF @ = NoNumber THEN 5000 ELSE @]

\* GET /api/reports with the query parameters query
ListReports(u, query) ==
  /\ UNCHANGED <<authVars, inflight, tokens>>
  /\ LET isAuthority == role(u) = "authority"
         filters == validated(query)
         result == getReports(reports, filters, u, isAuthority)
         req == [op |-> "list", actor |-> u, latitude |-> query.latitude,
                 longitude |-> query.longitude]
     IN res' = IF ~reportQuerySchema(query)
                 THEN req @@ [code |-> validationFailure.status,
                              success |-> validationFailure.success,
                              statusCode |-> validationFailure.statusCode,
                              message |-> validationFailure.message,
                              radius |-> query.radius, data |-> <<>>, ranQuery |-> FALSE]
                 ELSE req @@ [code |-> 200, success |-> TRUE, statusCode |-> 0, message |-> "",
                              radius |-> filters.radius,
                              data |-> result.data, ranQuery |-> result.ranQuery]
  /\ UNCHANGED <<reports, history, store, votes, upvotes, downvotes, now, nextId, calls, voteOps>>

\* a handler that leaves out the pending check
isPending_any(report) == TRUE

\* existingReport.status !== 'pending' rejects a citizen's update and delete
isPending(report) == report.status = "pending"

\* keys of reportUpdateSchema carried by the model's request bodies
reportUpdateKeys == {"title"}

\* validate(reportUpdateSchema) with stripUnknown: unknown keys are dropped
stripUnknown(body, keys) == [f \in DOMAIN body \cap keys |-> body[f]]

\* a title shorter than the schema's minimum of 5 characters
BadTitle == "bad"

\* PUT /api/reports/:id
UpdateReport(u, id, body, dbOk) ==
  /\ UNCHANGED <<authVars, inflight, tokens>>
  /\ LET isAuthority == role(u) = "authority"
         req == [op |-> "update", actor |-> u, id |-> id, title |-> body.title]
         updates == stripUnknown(body, reportUpdateKeys)
         existingReport == getReport(reports, id, u, FALSE)
         upd == updateReport(reports, history, id, updates, u, isAuthority, dbOk)
         keep == UNCHANGED <<reports, history>>
     IN
     IF body.title = BadTitle
       THEN res' = req @@ [code |-> validationFailure.status, success |-> validationFailure.success,
                   statusCode |-> validationFailure.statusCode, message |-> validationFailure.message]
            /\ keep
     ELSE IF ~isAuthority /\ existingReport.threw
       THEN res' = req @@ [code |-> 500, success |-> FALSE, statusCode |-> 500, message |-> "Failed to update report"] /\ keep
     ELSE IF ~isAuthority /\ existingReport.data = 0
       THEN res' = req @@ [code |-> 404, success |-> FALSE, statusCode |-> 404, message |-> "Report not found"] /\ keep
     ELSE IF ~isAuthority /\ ~isPending(reports[existingReport.data])
       THEN res' = req @@ [code |-> 403, success |-> FALSE, statusCode |-> 403, message |-> "Cannot update report that is no longer pending"]
            /\ keep
     ELSE /\ reports' = upd.reports
          /\ history' = upd.history
          /\ res' = IF upd.threw
                      THEN req @@ [code |-> 500, success |-> FALSE, statusCode |-> 500, message |-> "Failed to update report"]
                      ELSE req @@ [code |-> 200, success |-> TRUE, statusCode |-> 0, message |-> "Report updated successfully"]
  /\ UNCHANGED <<store, votes, upvotes, downvotes, now, nextId, calls, voteOps>>


\* number of rows of public.report_status_history
RECURSIVE rowCount(_, _)
rowCount(hist, ids) ==
  IF ids = {} THEN 0
  ELSE LET r == CHOOSE x \in ids : TRUE IN Len(hist[r]) + rowCount(hist, ids \ {r})

HistoryRows == rowCount(history, DOMAIN history)

\* PATCH /api/reports/:id/status
TransitionStatus(u, id, status, assignedTo, resolutionNotes, dbOk, push) ==
  /\ UNCHANGED <<authVars, inflight, tokens>>
  /\ HistoryRows < MaxHistory
  /\ LET req == [op |-> "transitionStatus", actor |-> u, id |-> id, status |-> status,
                 assignedTo |-> assignedTo, notes |-> resolutionNotes]
         currentReport == getReport(reports, id, NULL, TRUE)
         updates == [status |-> status,
                     assigned_to |-> IF assignedTo # ABSENT THEN assignedTo ELSE u,
                     resolution_notes |-> resolutionNotes]
         upd == updateReport(reports, history, id, updates, NULL, TRUE, dbOk)
         keep == UNCHANGED <<reports, history>>
         none == [prior |-> NULL, sent |-> {}, delivered |-> {}]
     IN
     IF ~requireRole(u, "authority")
       THEN res' = req @@ none @@ [code |-> 403, success |-> FALSE, statusCode |-> 403, message |-> "Access denied. Required role: authority"]
            /\ keep
     ELSE IF status \notin Statuses
       THEN res' = req @@ none @@ [code |-> validationFailure.status, success |-> validationFailure.success,
                   statusCode |-> validationFailure.statusCode,
                                  message |-> validationFailure.message]
            /\ keep
     ELSE IF currentReport.threw
       THEN res' = req @@ none @@ [code |-> 500, success |-> FALSE, statusCode |-> 500, message |-> "Failed to update report status"]
            /\ keep
     ELSE IF currentReport.data = 0
       THEN res' = req @@ none @@ [code |-> 404, success |-> FALSE, statusCode |-> 404, message |-> "Report not found"] /\ keep
     ELSE /\ reports' = upd.reports
          /\ history' = upd.history
          /\ LET n == IF reports[currentReport.data].status # status
                         THEN notifyReportStatusChange(id, status,
                                                       reports[currentReport.data].user_id, push)
                         ELSE noNotification
                 prior == [prior |-> reports[id].status]
             IN res' = IF upd.threw
                         THEN req @@ prior @@ [code |-> 500, success |-> FALSE, statusCode |-> 500, sent |-> {}, delivered |-> {},
                                               message |-> "Failed to update report status"]
                       ELSE IF n.threw
                         THEN req @@ prior @@ [code |-> 500, success |-> FALSE, statusCode |-> 500, sent |-> n.sent,
                                               delivered |-> n.delivered,
                                               message |-> "Failed to update report status"]
                         ELSE req @@ prior @@ [code |-> 200, success |-> TRUE, statusCode |-> 0, sent |-> n.sent,
                                               delivered |-> n.delivered,
                                               message |-> "Report status updated successfully"]
  /\ UNCHANGED <<store, votes, upvotes, downvotes, now, nextId, calls, voteOps>>

\* media deletion loop of DELETE /reports/:id from position k on: the path is rebuilt
\* from the last '/'-segment of the stored URL; failures are swallowed
RECURSIVE deleteMedia(_, _, _, _, _)
deleteMedia(s, uid, media_url, k, failing) ==
  IF k > Len(media_url) THEN s
  ELSE LET urlParts == media_url[k]
           fileNamePart == urlParts[Len(urlParts)]
           filePath == <<uid, fileNamePart>>
       IN deleteMedia(deleteFile(s, filePath, k \notin failing).store, uid, media_url, k + 1, failing)

\* the storage paths the media deletion loop asks the storage to remove, in order
deletePaths(uid, media_url) ==
  [k \in 1..Len(media_url) |-> <<uid, media_url[k][Len(media_url[k])]>>]

\* DELETE /api/reports/:id
DeleteReport(u, id, failing, rowOk) ==
  /\ UNCHANGED <<authVars, inflight, tokens>>
  /\ LET req == [op |-> "delete", actor |-> u, id |-> id, attempted |-> <<>>,
                 storageErrors |-> {}]
         existingReport == getReport(reports, id, u, FALSE)
         keep == UNCHANGED <<reports, history, store, votes, upvotes, downvotes>>
     IN
     IF role(u) # "citizen"
       THEN res' = req @@ [code |-> 403, success |-> FALSE, statusCode |-> 403, message |-> "Only citizens can delete their own reports"]
            /\ keep
     ELSE IF existingReport.threw
       THEN res' = req @@ [code |-> 500, success |-> FALSE, statusCode |-> 500, message |-> "Failed to delete report"] /\ keep
     ELSE IF existingReport.data = 0
       THEN res' = req @@ [code |-> 404, success |-> FALSE, statusCode |-> 404, message |-> "Report not found"] /\ keep
     ELSE IF ~isPending(reports[existingReport.data])
       THEN res' = req @@ [code |-> 403, success |-> FALSE, statusCode |-> 403, message |-> "Cannot delete report that is no longer pending"]
            /\ keep
     ELSE LET del == deleteReport(reports, id, u, rowOk)
              did == [op |-> "delete", actor |-> u, id |-> id,
                      attempted |-> deletePaths(u, reports[id].media_url),
                      storageErrors |-> failing \cap (1..Len(reports[id].media_url))]
          IN /\ store' = deleteMedia(store, u, reports[id].media_url, 1, failing)
             /\ IF del.threw
                  THEN /\ res' = did @@ [code |-> 500, success |-> FALSE, statusCode |-> 500, message |-> "Failed to delete report"]
                       /\ UNCHANGED <<reports, history, votes, upvotes, downvotes>>
                  ELSE /\ res' = did @@ [code |-> 200, success |-> TRUE, statusCode |-> 0, message |-> "Report deleted successfully"]
                       /\ reports' = without(reports, id)
                       /\ history' = without(history, id)
                       /\ upvotes' = without(upvotes, id)
                       /\ downvotes' = without(downvotes, id)
                       /\ votes' = [k \in {x \in DOMAIN votes : x[1] # id} |-> votes[k]]
  /\ UNCHANGED <<now, nextId, calls, voteOps>>

\* ------------------------------------------- handlers as interleaved steps
\* PUT /api/reports/:id by a citizen up to the await of updateReport: validation, the
\* lookup and the pending check; a request that passes them is in flight
UpdateCheck(u, id, body) ==
  /\ inflight = idle
  /\ role(u) = "citizen"
  /\ LET req == [op |-> "updateCheck", actor |-> u, id |-> id, title |-> body.title]
         updates == stripUnknown(body, reportUpdateKeys)
         existingReport == getReport(reports, id, u, FALSE)
     IN
     IF body.title = BadTitle
       THEN /\ res' = req @@ [code |-> validationFailure.status, success |-> validationFailure.success,
                              statusCode |-> validationFailure.statusCode,
                              message |-> validationFailure.message]
            /\ UNCHANGED inflight
     ELSE IF existingReport.threw
       THEN /\ res' = req @@ [code |-> 500, success |-> FALSE, statusCode |-> 500,
                              message |-> "Failed to update report"]
            /\ UNCHANGED inflight
     ELSE IF existingReport.data = 0
       THEN /\ res' = req @@ [code |-> 404, success |-> FALSE, statusCode |-> 404,
                              message |-> "Report not found"]
            /\ UNCHANGED inflight
     ELSE IF ~isPending(reports[existingReport.data])
       THEN /\ res' = req @@ [code |-> 403, success |-> FALSE, statusCode |-> 403,
                              message |-> "Cannot update report that is no longer pending"]
            /\ UNCHANGED inflight
     ELSE /\ inflight' = [op |-> "update", actor |-> u, id |-> id, updates |-> updates,
                          title |-> body.title]
          /\ res' = req @@ [code |-> 0, success |-> TRUE, statusCode |-> 0, message |-> ""]
  /\ UNCHANGED <<authVars, tokens>>
  /\ UNCHANGED <<reports, history, store, votes, upvotes, downvotes, now, nextId, calls, voteOps>>

\* the rest of PUT /api/reports/:id: updateReport and the answer
UpdateWrite(dbOk) ==
  /\ inflight.op = "update"
  /\ LET req == [op |-> "update", actor |-> inflight.actor, id |-> inflight.id,
                 title |-> inflight.title]
         upd == updateReport(reports, history, inflight.id, inflight.updates,
                             inflight.actor, FALSE, dbOk)
     IN /\ reports' = upd.reports
        /\ history' = upd.history
        /\ res' = IF upd.threw
                    THEN req @@ [code |-> 500, success |-> FALSE, statusCode |-> 500,
                                 message |-> "Failed to update report"]
                    ELSE req @@ [code |-> 200, success |-> TRUE, statusCode |-> 0,
                                 message |-> "Report updated successfully"]
  /\ inflight' = idle
  /\ UNCHANGED <<authVars, tokens>>
  /\ UNCHANGED <<store, votes, upvotes, downvotes, now, nextId, calls, voteOps>>

\* DELETE /api/reports/:id by a citizen up to the first await after the pending check
DeleteCheck(u, id) ==
  /\ inflight = idle
  /\ role(u) = "citizen"
  /\ LET req == [op |-> "deleteCheck", actor |-> u, id |-> id]
         existingReport == getReport(reports, id, u, FALSE)
     IN
     IF existingReport.threw
       THEN /\ res' = req @@ [code |-> 500, success |-> FALSE, statusCode |-> 500,
                              message |-> "Failed to delete report"]
            /\ UNCHANGED inflight
     ELSE IF existingReport.data = 0
       THEN /\ res' = req @@ [code |-> 404, success |-> FALSE, statusCode |-> 404,
                              message |-> "Report not found"]
            /\ UNCHANGED inflight
     ELSE IF ~isPending(reports[existingReport.data])
       THEN /\ res' = req @@ [code |-> 403, success |-> FALSE, statusCode |-> 403,
                              message |-> "Cannot delete report that is no longer pending"]
            /\ UNCHANGED inflight
     ELSE /\ inflight' = [op |-> "delete", actor |-> u, id |-> id,
                          media_url |-> reports[id].media_url]
          /\ res' = req @@ [code |-> 0, success |-> TRUE, statusCode |-> 0, message |-> ""]
  /\ UNCHANGED <<authVars, tokens>>
  /\ UNCHANGED <<reports, history, store, votes, upvotes, downvotes, now, nextId, calls, voteOps>>

\* the rest of DELETE /api/reports/:id: the media deletion loop, deleteReport, the answer
DeleteWrite(failing, rowOk) ==
  /\ inflight.op = "delete"
  /\ LET u == inflight.actor
         id == inflight.id
         req == [op |-> "delete", actor |-> u, id |-> id,
                 attempted |-> deletePaths(u, inflight.media_url),
                 storageErrors |-> failing \cap (1..Len(inflight.media_url))]
         del == deleteReport(reports, id, u, rowOk)
     IN /\ store' = deleteMedia(store, u, inflight.media_url, 1, failing)
        /\ IF del.threw
             THEN /\ res' = req @@ [code |-> 500, success |-> FALSE, statusCode |-> 500,
                                    message |-> "Failed to delete report"]
                  /\ UNCHANGED <<reports, history, votes, upvotes, downvotes>>
             ELSE /\ res' = req @@ [code |-> 200, success |-> TRUE, statusCode |-> 0,
                                    message |-> "Report deleted successfully"]
                  /\ reports' = without(reports, id)
                  /\ history' = without(history, id)
                  /\ upvotes' = without(upvotes, id)
                  /\ downvotes' = without(downvotes, id)
                  /\ votes' = [k \in {x \in DOMAIN votes : x[1] # id} |-> votes[k]]
  /\ inflight' = idle
  /\ UNCHANGED <<authVars, tokens>>
  /\ UNCHANGED <<now, nextId, calls, voteOps>>

\* ------------------------------------------------------------ push tokens
TokenNames == {"t1", "t2"}

\* SupabaseService.savePushToken: upsert on the unique column token
savePushToken(tk, userId, token, ok) ==
  IF ok
    THEN [threw |-> FALSE, tokens |-> [t \in DOMAIN tk \cup {token} |->
                                         IF t = token THEN userId ELSE tk[t]]]
    ELSE [threw |-> TRUE, tokens |-> tk]

\* SupabaseService.deletePushToken: delete().eq('token', token) with the service role
\* client; userId is the requester, which the statement does not use
deletePushToken(tk, userId, token, ok) ==
  IF ok
    THEN [threw |-> FALSE, tokens |-> [t \in DOMAIN tk \ {token} |-> tk[t]]]
    ELSE [threw |-> TRUE, tokens |-> tk]

\* POST /api/notifications/register-token; expo is Expo.isExpoPushToken(token)
RegisterToken(u, token, expo, dbOk) ==
  /\ LET req == [op |-> "registerToken", actor |-> u, token |-> token]
         saved == savePushToken(tokens, u, token, dbOk)
     IN IF ~expo
          THEN /\ res' = req @@ [code |-> 400, success |-> FALSE, statusCode |-> 400,
                                 message |-> "Invalid push token format"]
               /\ UNCHANGED tokens
          ELSE /\ tokens' = saved.tokens
               /\ res' = IF saved.threw
                           THEN req @@ [code |-> 400, success |-> FALSE, statusCode |-> 400,
                                        message |-> "database error"]
                           ELSE req @@ [code |-> 201, success |-> TRUE, statusCode |-> 0,
                                        message |-> "Push token registered successfully"]
  /\ UNCHANGED <<authVars, inflight>>
  /\ UNCHANGED <<reports, history, store, votes, upvotes, downvotes, now, nextId, calls, voteOps>>

\* DELETE /api/notifications/token/:token
RemoveToken(u, token, dbOk) ==
  /\ LET req == [op |-> "removeToken", actor |-> u, token |-> token]
         removed == deletePushToken(tokens, u, token, dbOk)
     IN /\ tokens' = removed.tokens
        /\ res' = IF removed.threw
                    THEN req @@ [code |-> 400, success |-> FALSE, statusCode |-> 400,
                                 message |-> "database error"]
                    ELSE req @@ [code |-> 200, success |-> TRUE, statusCode |-> 0,
                                 message |-> "Push token removed successfully"]
  /\ UNCHANGED <<authVars, inflight>>
  /\ UNCHANGED <<reports, history, store, votes, upvotes, downvotes, now, nextId, calls, voteOps>>

\* ----------------------------------------------------------- registration
Emails == {"e1", "e2", "e3"}

\* the words of the messages that the registration code and the upload error handler search
words(m) ==
  CASE m = "User already registered" -> <<"User", "already", "registered">>
    [] m = "User with this email already exists"
         -> <<"User", "with", "this", "email", "already", "exists">>
    [] m = "File type" -> <<"File", "type">>
    [] m = "File size" -> <<"File", "size">>
    [] m = "File type video/avi not allowed"
         -> <<"File", "type", "video/avi", "not", "allowed">>
    [] m = "File size exceeds limit of 10MB"
         -> <<"File", "size", "exceeds", "limit", "of", "10MB">>
    [] OTHER -> <<m>>

\* String.prototype.includes
includes(m, needle) ==
  LET h == words(m)
      n == words(needle)
  IN \E i \in 1..(Len(h) + 1) : i + Len(n) - 1 <= Len(h) /\ SubSeq(h, i, i + Len(n) - 1) = n

\* answers of the identity provider to auth.signUp: it creates the account, or rejects
\* an email that has one, or is unreachable
authSignUp(accs, email, up) ==
  IF ~up THEN [error |-> TRUE, message |-> "fetch failed", accounts |-> accs]
  ELSE IF email \in accs
    THEN [error |-> TRUE, message |-> "User already registered", accounts |-> accs]
    ELSE [error |-> FALSE, message |-> "", accounts |-> accs \cup {email}]

\* SupabaseService.signUp: the account at the identity provider, then the profile row
signUp(accs, profs, email, role_, up, profileOk) ==
  LET a == authSignUp(accs, email, up)
  IN IF a.error
       THEN IF includes(a.message, "User already registered")
              THEN [threw |-> TRUE, message |-> "User with this email already exists",
                    accounts |-> a.accounts, profiles |-> profs]
              ELSE [threw |-> TRUE, message |-> a.message,
                    accounts |-> a.accounts, profiles |-> profs]
     ELSE IF ~profileOk
       THEN [threw |-> TRUE, message |-> "Failed to create user profile: insert failed",
             accounts |-> a.accounts, profiles |-> profs]
     ELSE [threw |-> FALSE, message |-> "",
           accounts |-> a.accounts, profiles |-> profs @@ (email :> role_)]

\* POST /api/auth/register
Register(email, valid, role_, up, profileOk) ==
  /\ LET req == [op |-> "register", email |-> email, valid |-> valid, provider |-> up]
         userData == signUp(accounts, profiles, email, role_, up, profileOk)
     IN
     IF ~valid
       THEN /\ res' = req @@ [code |-> validationFailure.status,
                              success |-> validationFailure.success,
                              statusCode |-> validationFailure.statusCode,
                              message |-> validationFailure.message]
            /\ UNCHANGED <<authVars, inflight, tokens>>
       ELSE /\ accounts' = userData.accounts
            /\ profiles' = userData.profiles
            /\ UNCHANGED <<inflight, tokens>>
            /\ res' = IF ~userData.threw
                        THEN req @@ [code |-> 201, success |-> TRUE, statusCode |-> 0,
                                     message |-> "User registered successfully. Please check your email for verification."]
                      ELSE IF includes(userData.message, "User already registered")
                        THEN req @@ [code |-> 409, success |-> FALSE, statusCode |-> 409,
                                     message |-> "User with this email already exists"]
                        ELSE req @@ [code |-> 400, success |-> FALSE, statusCode |-> 400,
                                     message |-> userData.message]
  /\ UNCHANGED <<reports, history, store, votes, upvotes, downvotes, now, nextId, calls, voteOps>>

\* ------------------------------------------------------------ middleware
\* the middleware hands the request to the next handler
next == [status |-> 0, success |-> TRUE, statusCode |-> 0, message |-> ""]

\* what the Authorization header carries: nothing, a token the identity provider
\* rejects, a token whose profile row cannot be read, a token whose verification
\* throws, a good token
Tokens == {"none", "invalid", "noprofile", "throws", "ok"}

\* authenticate
authenticate(token) ==
  CASE token = "none" -> [status |-> 401, success |-> FALSE, statusCode |-> 401,
                          message |-> "No authorization token provided"]
    [] token = "invalid" -> [status |-> 401, success |-> FALSE, statusCode |-> 401,
                             message |-> "Invalid or expired token"]
    [] token = "noprofile" -> [status |-> 500, success |-> FALSE, statusCode |-> 500,
                               message |-> "Failed to fetch user profile"]
    [] token = "throws" -> [status |-> 500, success |-> FALSE, statusCode |-> 500,
                            message |-> "Authentication failed"]
    [] OTHER -> next

\* requireRole(requiredRole) as a middleware: user is req.user, ABSENT when not set
requireRoleMiddleware(user, requiredRole) ==
  IF user = ABSENT
    THEN [status |-> 401, success |-> FALSE, statusCode |-> 401,
          message |-> "User not authenticated"]
  ELSE IF ~requireRole(user, requiredRole)
    THEN [status |-> 403, success |-> FALSE, statusCode |-> 403,
          message |-> "Access denied. Required role: " \o requiredRole]
  ELSE next

\* errors of the upload: multer's limits, the file filter's rejections, and an
\* unexpected field
UploadErrors ==
  {[name |-> "MulterError", code |-> "LIMIT_FILE_SIZE", message |-> "File too large", statusCode |-> 0],
   [name |-> "MulterError", code |-> "LIMIT_FILE_COUNT", message |-> "Too many files", statusCode |-> 0],
   [name |-> "MulterError", code |-> "LIMIT_UNEXPECTED_FILE", message |-> "Unexpected field", statusCode |-> 0],
   [name |-> "Error", code |-> "", message |-> "File type video/avi not allowed", statusCode |-> 0],
   [name |-> "Error", code |-> "", message |-> "File size exceeds limit of 10MB", statusCode |-> 0]}

\* handleUploadError; an error it does not answer goes on to errorHandler
handleUploadError(error) ==
  IF error.name = "MulterError" /\ error.code = "LIMIT_FILE_SIZE"
    THEN [status |-> 400, success |-> FALSE, statusCode |-> 400, message |-> "File too large"]
  ELSE IF error.name = "MulterError" /\ error.code = "LIMIT_FILE_COUNT"
    THEN [status |-> 400, success |-> FALSE, statusCode |-> 400,
          message |-> "Too many files uploaded"]
  ELSE IF includes(error.message, "File type") \/ includes(error.message, "File size")
    THEN [status |-> 400, success |-> FALSE, statusCode |-> 400, message |-> error.message]
  ELSE errorHandler(error, NodeEnv)

\* a request that authenticate or requireRole(requiredRole) answers itself
AuthRejected(token, u, requiredRole) ==
  /\ LET a == authenticate(token)
         r == IF a = next THEN requireRoleMiddleware(u, requiredRole) ELSE a
     IN /\ r # next
        /\ res' = [op |-> "middleware", code |-> r.status, success |-> r.success,
                   statusCode |-> r.statusCode, message |-> r.message]
  /\ UNCHANGED <<authVars, inflight, tokens>>
  /\ UNCHANGED <<reports, history, store, votes, upvotes, downvotes, now, nextId, calls, voteOps>>

\* an upload that multer or the file filter refuses
UploadRejected(error) ==
  /\ LET r == handleUploadError(error)
     IN res' = [op |-> "upload", code |-> r.status, success |-> r.success,
                statusCode |-> r.statusCode, message |-> r.message]
  /\ UNCHANGED <<authVars, inflight, tokens>>
  /\ UNCHANGED <<reports, history, store, votes, upvotes, downvotes, now, nextId, calls, voteOps>>

\* GET /api/users/:id/reports
UserReports(u, id, page, limit) ==
  /\ LET rejected == requireRoleMiddleware(u, "authority")
         filters == [status |-> ABSENT, latitude |-> NoNumber, longitude |-> NoNumber,
                     radius |-> NoNumber, sortBy |-> "created_at", sortOrder |-> "desc",
                     page |-> page, limit |-> limit]
         result == getReports(reports, filters, id, TRUE)
         req == [op |-> "userReports", actor |-> u, id |-> id]
     IN res' = IF rejected # next
                 THEN req @@ [code |-> rejected.status, success |-> FALSE,
                              statusCode |-> rejected.statusCode,
                              message |-> rejected.message, data |-> <<>>]
                 ELSE req @@ [code |-> 200, success |-> TRUE, statusCode |-> 0,
                              message |-> "", data |-> result.data]
  /\ UNCHANGED <<authVars, inflight, tokens>>
  /\ UNCHANGED <<reports, history, store, votes, upvotes, downvotes, now, nextId, calls, voteOps>>

\* the GET routes of the reports router in the order of their registration; ":id" is
\* a route parameter
GetRoutes == << <<>>, <<":id">>, <<":id", "history">>, <<"statistics">> >>

\* a route pattern matches a path: the same length, and each segment equal or a parameter
matches(pattern, path) ==
  /\ Len(pattern) = Len(path)
  /\ \A i \in 1..Len(pattern) : pattern[i] = ":id" \/ pattern[i] = path[i]

\* the router hands the request to the first registered route that matches
dispatch(path) ==
  LET hits == {i \in 1..Len(GetRoutes) : matches(GetRoutes[i], path)}
  IN IF hits = {} THEN <<"none">>
     ELSE GetRoutes[CHOOSE i \in hits : \A j \in hits : i <= j]

\* an id that no report row has
NoSuchId == 0

\* the report id a path segment denotes; "statistics" is the id of no report
idOf(segment) ==
  IF \E i \in 1..MaxReports : ToString(i) = segment
    THEN CHOOSE i \in 1..MaxReports : ToString(i) = segment
    ELSE NoSuchId

\* view report_statistics: the numbers of reports, in all and per status
report_statistics(rs) ==
  [total_reports |-> Cardinality(DOMAIN rs),
   pending_reports |-> Cardinality({r \in DOMAIN rs : rs[r].status = "pending"}),
   in_progress_reports |-> Cardinality({r \in DOMAIN rs : rs[r].status = "in_progress"}),
   resolved_reports |-> Cardinality({r \in DOMAIN rs : rs[r].status = "resolved"}),
   rejected_reports |-> Cardinality({r \in DOMAIN rs : rs[r].status = "rejected"})]

\* GET /api/reports/<segment>: the handler the router picks answers
GetPath(u, segment) ==
  /\ UNCHANGED <<authVars, inflight, tokens>>
  /\ LET route == dispatch(<<segment>>)
         isAuthority == role(u) = "authority"
         report == getReport(reports, idOf(segment), u, isAuthority)
         rejected == requireRoleMiddleware(u, "authority")
         req == [op |-> "get", actor |-> u, path |-> segment]
     IN res' =
          IF route = <<"statistics">>
            THEN IF rejected # next
                   THEN req @@ [handler |-> "statistics", code |-> rejected.status,
                                success |-> FALSE, statusCode |-> rejected.statusCode,
                                message |-> rejected.message, data |-> 0]
                   ELSE req @@ [handler |-> "statistics", code |-> 200, success |-> TRUE,
                                statusCode |-> 0, message |-> "",
                                data |-> report_statistics(reports)]
          ELSE IF report.threw
            THEN req @@ [handler |-> "report", code |-> 500, success |-> FALSE,
                         statusCode |-> 500, message |-> "Failed to fetch report", data |-> 0]
          ELSE IF report.data = 0
            THEN req @@ [handler |-> "report", code |-> 404, success |-> FALSE,
                         statusCode |-> 404, message |-> "Report not found", data |-> 0]
          ELSE req @@ [handler |-> "report", code |-> 200, success |-> TRUE,
                       statusCode |-> 0, message |-> "", data |-> report.data]
  /\ UNCHANGED <<reports, history, store, votes, upvotes, downvotes, now, nextId, calls, voteOps>>

\* ---------------------------------------------------------------- votes
VoteTypes == {"upvote", "downvote"}

\* values the column vote_type admits: CHECK (vote_type IN (...)) passes for NULL
VoteTypeValues == VoteTypes \cup {NULL}

\* trigger update_report_vote_counts (AFTER INSERT OR UPDATE OR DELETE ON report_votes):
\* the counters [up, down] of the report after the row-level trigger ran
update_vote_counts(tgOp, oldType, newType, c) ==
  CASE tgOp = "INSERT" ->
         IF newType = "upvote" THEN [c EXCEPT !.up = @ + 1]
         ELSE IF newType = "downvote" THEN [c EXCEPT !.down = @ + 1]
         ELSE c
    [] tgOp = "DELETE" ->
         IF oldType = "upvote" THEN [c EXCEPT !.up = @ - 1]
         ELSE IF oldType = "downvote" THEN [c EXCEPT !.down = @ - 1]
         ELSE c
    [] tgOp = "UPDATE" ->
         IF oldType = "upvote" /\ newType = "downvote"
           THEN [up |-> c.up - 1, down |-> c.down + 1]
         ELSE IF oldType = "downvote" /\ newType = "upvote"
           THEN [up |-> c.up + 1, down |-> c.down - 1]
         ELSE c
    [] OTHER -> c

counters(r) == [up |-> upvotes[r], down |-> downvotes[r]]

\* INSERT INTO report_votes (report_id, user_id, vote_type); UNIQUE(report_id, user_id)
\* and the foreign key to reports reject the statement
InsertVote(r, u, t) ==
  /\ UNCHANGED <<authVars, inflight, tokens>>
  /\ voteOps < MaxVoteOps
  /\ voteOps' = voteOps + 1
  /\ IF r \notin DOMAIN reports \/ <<r, u>> \in DOMAIN votes
       THEN /\ res' = [op |-> "insertVote", code |-> 0, success |-> TRUE, statusCode |-> 0, message |-> "", error |-> TRUE]
            /\ UNCHANGED <<votes, upvotes, downvotes>>
       ELSE LET c == update_vote_counts("INSERT", NULL, t, counters(r))
            IN /\ votes' = votes @@ (<<r, u>> :> t)
               /\ upvotes' = [upvotes EXCEPT ![r] = c.up]
               /\ downvotes' = [downvotes EXCEPT ![r] = c.down]
               /\ res' = [op |-> "insertVote", code |-> 0, success |-> TRUE, statusCode |-> 0, message |-> "", error |-> FALSE]
  /\ UNCHANGED <<reports, history, store, now, nextId, calls>>

\* UPDATE report_votes SET vote_type = t WHERE report_id = r AND user_id = u
UpdateVote(r, u, t) ==
  /\ UNCHANGED <<authVars, inflight, tokens>>
  /\ voteOps < MaxVoteOps
  /\ <<r, u>> \in DOMAIN votes
  /\ voteOps' = voteOps + 1
  /\ LET c == update_vote_counts("UPDATE", votes[<<r, u>>], t, counters(r))
     IN /\ votes' = [votes EXCEPT ![<<r, u>>] = t]
        /\ upvotes' = [upvotes EXCEPT ![r] = c.up]
        /\ downvotes' = [downvotes EXCEPT ![r] = c.down]
  /\ res' = [op |-> "updateVote", code |-> 0, success |-> TRUE, statusCode |-> 0, message |-> "", error |-> FALSE]
  /\ UNCHANGED <<reports, history, store, now, nextId, calls>>

\* DELETE FROM report_votes WHERE report_id = r AND user_id = u
DeleteVote(r, u) ==
  /\ UNCHANGED <<authVars, inflight, tokens>>
  /\ voteOps < MaxVoteOps
  /\ <<r, u>> \in DOMAIN votes
  /\ voteOps' = voteOps + 1
  /\ LET c == update_vote_counts("DELETE", votes[<<r, u>>], NULL, counters(r))
     IN /\ votes' = [k \in DOMAIN votes \ {<<r, u>>} |-> votes[k]]
        /\ upvotes' = [upvotes EXCEPT ![r] = c.up]
        /\ downvotes' = [downvotes EXCEPT ![r] = c.down]
  /\ res' = [op |-> "deleteVote", code |-> 0, success |-> TRUE, statusCode |-> 0, message |-> "", error |-> FALSE]
  /\ UNCHANGED <<reports, history, store, now, nextId, calls>>

\* ------------------------------------------------------- specifications
ReportIds == 1..MaxReports

noInjection == [failAt |-> 0, cleanupFailing |-> {}]

\* storage failures: the position of the failing upload and, among the positions
\* uploaded before it, those whose cleanup removal fails too
Injections == {inj \in [failAt : 0..MaxFiles, cleanupFailing : SUBSET (1..MaxFiles)] :
                 inj.cleanupFailing \subseteq 1..(inj.failAt - 1)}


OneImage == <<"image/jpeg">>

\* request bodies of PUT /reports/:id: a title (absent, valid or too short) and
\* a key the schema does not know
UpdateBodies == {[title |-> "t2", status |-> ABSENT], [title |-> "t2", status |-> "resolved"],
                 [title |-> ABSENT, status |-> "resolved"], [title |-> BadTitle, status |-> ABSENT]}

\* the report routes, with storage, database and inference answering
CreateOk == \E u \in Citizens :
              CreateReport(u, TRUE, OneImage, 1, 1, noInjection, "timeout", TRUE, notifyDelivered)

Read == \E u \in Users, id \in ReportIds : ReadReport(u, id)

Update == \E u \in Users, id \in ReportIds, body \in UpdateBodies, dbOk \in BOOLEAN :
            UpdateReport(u, id, body, dbOk)

Transition == \E u \in Users, id \in ReportIds, st \in Statuses \cup {"closed"},
                 a \in {ABSENT, GhostUser}, dbOk \in BOOLEAN :
                TransitionStatus(u, id, st, a, ABSENT, dbOk, "ok")

Delete == \E u \in Users, id \in ReportIds, failing \in {{}, {1}}, rowOk \in BOOLEAN :
            DeleteReport(u, id, failing, rowOk)

\* one report, by citizen c1; c2 is the other citizen and a1 the authority
Create == CreateReport("c1", TRUE, OneImage, 1, 1, noInjection, "timeout", TRUE, notifyDelivered)

Next == Create \/ Read \/ Update \/ Transition \/ Delete

Spec == Init /\ [][Next]_vars

\* PATCH /reports/:id/status on one report with every body and every outcome.
\* Bodies besides the status: neither assignee nor notes; an assignee that is no user
\* row; an assignee that is a user row, with notes
StatusBodies == {[assignedTo |-> ABSENT, resolutionNotes |-> ABSENT],
                 [assignedTo |-> GhostUser, resolutionNotes |-> ABSENT],
                 [assignedTo |-> "c2", resolutionNotes |-> "fixed"]}

TransitionAny ==
  \/ \E u \in Users, id \in ReportIds, st \in Statuses \cup {"closed"}, b \in StatusBodies :
       TransitionStatus(u, id, st, b.assignedTo, b.resolutionNotes, TRUE, "ok")
  \/ \E id \in ReportIds, st \in Statuses, push \in PushOutcomes \ {"ok"} :
       TransitionStatus("a1", id, st, ABSENT, ABSENT, TRUE, push)
  \/ \E id \in ReportIds, st \in Statuses :
       TransitionStatus("a1", id, st, ABSENT, ABSENT, FALSE, "ok")

NextStatus == Create \/ TransitionAny

SpecStatus == Init /\ [][NextStatus]_vars

\* POST /auth/register with every answer of the identity provider and of the insert
RegisterAny == \E email \in Emails, valid \in BOOLEAN, r \in {"citizen", "authority"},
                  up \in BOOLEAN, profileOk \in BOOLEAN :
                 Register(email, valid, r, up, profileOk)

NextAuth == RegisterAny

SpecAuth == Init /\ [][NextAuth]_vars

\* the life of a report with every collaborator answering: created by citizen c1 with
\* one image (inference answers or fails), moved by anyone to any status, deleted by anyone
CreateMl == \E ml \in MLOutcomes :
              CreateReport("c1", TRUE, OneImage, 1, 1, noInjection, ml, TRUE, notifyDelivered)

TransitionOk == \E u \in Users, id \in ReportIds, st \in Statuses :
                  TransitionStatus(u, id, st, ABSENT, ABSENT, TRUE, "ok")

DeleteOk == \E u \in Users, id \in ReportIds : DeleteReport(u, id, {}, TRUE)

NextLife == CreateMl \/ TransitionOk \/ DeleteOk

SpecLife == Init /\ [][NextLife]_vars

\* a citizen's update and delete, each split at the await between its pending check and
\* its write, interleaved with the authority's status writes
UpdateBegin == \E u \in Citizens, id \in ReportIds,
                  body \in {[title |-> "t2", status |-> ABSENT], [title |-> BadTitle, status |-> ABSENT]} :
                 UpdateCheck(u, id, body)

UpdateEnd == \E dbOk \in BOOLEAN : UpdateWrite(dbOk)

DeleteBegin == \E u \in Citizens, id \in ReportIds : DeleteCheck(u, id)

DeleteEnd == \E failing \in {{}, {1}}, rowOk \in BOOLEAN : DeleteWrite(failing, rowOk)

Resolve == \E id \in ReportIds, st \in {"pending", "resolved"} :
             TransitionStatus("a1", id, st, ABSENT, ABSENT, TRUE, "ok")

NextRace == Create \/ Resolve \/ UpdateBegin \/ UpdateEnd \/ DeleteBegin \/ DeleteEnd

SpecRace == Init /\ [][NextRace]_vars

\* the push tokens of the three users
RegisterAnyToken == \E u \in Users, token \in TokenNames, expo \in BOOLEAN, dbOk \in BOOLEAN :
                      RegisterToken(u, token, expo, dbOk)

RemoveAnyToken == \E u \in Users, token \in TokenNames, dbOk \in BOOLEAN :
                    RemoveToken(u, token, dbOk)

NextTokens == RegisterAnyToken \/ RemoveAnyToken

SpecTokens == Init /\ [][NextTokens]_vars

\* every way a request is answered with an error: the report routes, registration,
\* the authentication and role middleware and the upload error handler
CreateFailing ==
  \/ \E files \in {<<>>, OneImage} :
       CreateReport("c1", FALSE, files, 1, 1, noInjection, "timeout", TRUE, notifyDelivered)
  \/ CreateReport("c1", TRUE, <<>>, 1, 1, noInjection, "timeout", TRUE, notifyDelivered)
  \/ CreateReport("c1", TRUE, OneImage, 1, 1, [failAt |-> 1, cleanupFailing |-> {}],
                  "timeout", TRUE, notifyDelivered)
  \/ CreateReport("c1", TRUE, OneImage, 1, 1, noInjection, "timeout", FALSE, notifyDelivered)

RegisterOne == \E valid \in BOOLEAN, up \in BOOLEAN, profileOk \in BOOLEAN :
                 Register("e1", valid, "citizen", up, profileOk)

Rejected == \E token \in Tokens, u \in Users \cup {ABSENT} : AuthRejected(token, u, "authority")

Refused == \E error \in UploadErrors : UploadRejected(error)

NextEnvelope == Create \/ CreateFailing \/ Read \/ Update \/ Transition \/ Delete
                  \/ RegisterOne \/ Rejected \/ Refused

SpecEnvelope == Init /\ [][NextEnvelope]_vars

\* validated query strings of GET /reports (radius defaults to 5000)
Paging == {[sortBy |-> "created_at", sortOrder |-> "desc", page |-> 1, limit |-> 20],
           [sortBy |-> "status", sortOrder |-> "asc", page |-> 1, limit |-> 1],
           [sortBy |-> "created_at", sortOrder |-> "asc", page |-> 2, limit |-> 1]}

\* the centre of the spatial filter: none, or a latitude and a longitude
Centres == {<<NoNumber, NoNumber>>} \cup {<<lat, 1>> : lat \in Coords}

Filters ==
  {[status |-> st, latitude |-> NoNumber, longitude |-> NoNumber, radius |-> 5000,
    sortBy |-> p.sortBy, sortOrder |-> p.sortOrder, page |-> p.page, limit |-> p.limit] :
     st \in {ABSENT, "pending"}, p \in Paging}
  \cup {[status |-> ABSENT, latitude |-> c[1], longitude |-> c[2], radius |-> 5000,
          sortBy |-> "created_at", sortOrder |-> "desc", page |-> 1, limit |-> 20] :
           c \in Centres}

\* GET /reports over reports of several authors, places and statuses
CreateAt == \E u \in Citizens, lat \in Coords :
              CreateReport(u, TRUE, OneImage, lat, 1, noInjection, "timeout", TRUE, notifyDelivered)

Progress == \E id \in ReportIds : TransitionStatus("a1", id, "in_progress", ABSENT, ABSENT, TRUE, "ok")

\* the callers: a citizen (c2 is then the other author) and the authority
List == \E u \in {"c1", "a1"}, f \in Filters : ListReports(u, f)

\* GET /users/:id/reports for each author, by a citizen and by the authority
ListOf == \E u \in {"c1", "a1"}, id \in Citizens : UserReports(u, id, 1, 20)

\* GET /reports with a centre and a radius of 0, of 5000 or left out
RadiusQueries == {[status |-> ABSENT, latitude |-> lat, longitude |-> 1, radius |-> r,
                   sortBy |-> "created_at", sortOrder |-> "desc", page |-> 1, limit |-> 20] :
                    lat \in Coords, r \in {0, 5000, NoNumber}}

ListRadius == \E u \in {"c1", "a1"}, q \in RadiusQueries : ListReports(u, q)

NextRadius == CreateAt \/ ListRadius

SpecRadius == Init /\ [][NextRadius]_vars

NextList == Tick \/ CreateAt \/ Progress \/ List \/ ListOf

SpecList == Init /\ [][NextList]_vars

\* GET /reports/<segment> for the id of each report and for "statistics", over reports
\* of both citizens in several statuses
Segments == {ToString(i) : i \in ReportIds} \cup {"statistics"}

Get == \E u \in Users, segment \in Segments : GetPath(u, segment)

NextRoutes == CreateOk \/ Progress \/ Get

SpecRoutes == Init /\ [][NextRoutes]_vars

hasImage(files) == SelectSeq(files, isImage) # <<>>

\* POST /reports by citizen c1 with every outcome of validation, inference, the insert
\* and the notification; an outcome is drawn only for the steps the call gets to
CreateAny ==
  \/ \E files \in {<<>>, OneImage} :
       CreateReport("c1", FALSE, files, 1, 1, noInjection, "pothole", TRUE, notifyDelivered)
  \/ \E files \in FileLists :
       \E ml \in IF hasImage(files) THEN MLOutcomes ELSE {"pothole"} :
         \/ CreateReport("c1", TRUE, files, 1, 1, noInjection, ml, FALSE, notifyDelivered)
         \/ \E notify \in NotifyOutcomes :
              CreateReport("c1", TRUE, files, 1, 1, noInjection, ml, TRUE, notify)

NextCreate == CreateAny

SpecCreate == Init /\ [][NextCreate]_vars

\* POST /reports by citizen c1 with every outcome of the bucket: each upload and each
\* cleanup removal succeeds or fails, and so does the insert after the uploads; keys
\* of earlier calls make later uploads collide.
\* Citizen c2 uploads one image, so the bucket also holds keys of another user
CreateUpload ==
  \/ \E files \in FileLists, inj \in Injections :
       /\ inj.failAt \in 0..Len(files)
       /\ \E insertOk \in IF inj.failAt = 0 THEN BOOLEAN ELSE {TRUE} :
            CreateReport("c1", TRUE, files, 1, 1, inj, "pothole", insertOk, notifyDelivered)
  \/ CreateReport("c2", TRUE, OneImage, 1, 1, noInjection, "pothole", TRUE, notifyDelivered)

NextUpload == CreateUpload

SpecUpload == Init /\ [][NextUpload]_vars

\* statements on report_votes, on the reports created by POST /reports
Vote == \/ \E r \in ReportIds, u \in Users, t \in VoteTypeValues : InsertVote(r, u, t)
        \/ \E r \in ReportIds, u \in Users, t \in VoteTypeValues : UpdateVote(r, u, t)
        \/ \E r \in ReportIds, u \in Users : DeleteVote(r, u)

NextVotes == CreateOk \/ Vote

SpecVotes == Init /\ [][NextVotes]_vars

\* ==================================================================== claims
Terminal == {"resolved", "rejected"}

\* the status changes of the documented lifecycle
AllowedTransitions == {<<"pending", "in_progress">>, <<"in_progress", "resolved">>,
                       <<"pending", "rejected">>, <<"in_progress", "rejected">>}

\* C1 (as claimed): after a create call that failed in the upload loop, the bucket
\* holds none of the keys that call uploaded.
C1_NoKeyLeftAfterFailedUpload ==
  (res.op = "create" /\ res.stage = "upload") => (res.uploaded \cap store = {})

\* C1 (amended): a create call that fails in the upload loop answers 500, persists no
\* report row, and leaves in the bucket exactly those of the keys it uploaded whose
\* cleanup removal failed; when every cleanup removal succeeds none is left.
C1_FailedUploadRollsBack ==
  [][(res'.op = "create" /\ res'.stage = "upload")
       => /\ res'.code = 500
          /\ reports' = reports
          /\ res'.uploaded \cap store' = res'.cleanupFailed
          /\ store' = store \cup res'.cleanupFailed]_vars

C1_Witness ==
  /\ res.op = "create" /\ res.stage = "upload"
  /\ res.uploaded # {} /\ res.cleanupFailed = {}
  /\ res.uploaded \cap store = {}

\* C2 (as claimed): a transitionStatus request by an authority for a status pair outside
\* the documented lifecycle is answered with a validation error (400) and leaves the
\* status of the report unchanged.
C2_OnlyLifecycleTransitions ==
  [][\A id \in DOMAIN reports :
       (/\ res'.op = "transitionStatus" /\ res'.id = id /\ role(res'.actor) = "authority"
        /\ <<reports[id].status, res'.status>> \notin AllowedTransitions)
       => (/\ res'.code = 400
           /\ id \in DOMAIN reports'
           /\ reports'[id].status = reports[id].status)]_vars

\* C3 (as claimed): the status of a report that is resolved or rejected never changes
\* again, and every transitionStatus request on such a report is rejected (400, or 403
\* for a requester who is no authority).
C3_TerminalStatusIsFinal ==
  [][\A id \in DOMAIN reports :
       reports[id].status \in Terminal
       => (/\ id \in DOMAIN reports' => reports'[id].status = reports[id].status
           /\ (res'.op = "transitionStatus" /\ res'.id = id) => res'.code \in {400, 403})]_vars

\* C4: every step that changes the status of a report appends exactly one history row
\* carrying (old status, new status); a step that leaves the status equal leaves the
\* rows of the report as they are; a new report starts with no rows.
C4_OneHistoryRowPerStatusChange ==
  [][/\ DOMAIN history' = DOMAIN reports'
     /\ \A id \in DOMAIN reports' \ DOMAIN reports : history'[id] = <<>>
     /\ \A id \in DOMAIN reports \cap DOMAIN reports' :
          IF reports'[id].status # reports[id].status
            THEN /\ Len(history'[id]) = Len(history[id]) + 1
                 /\ SubSeq(history'[id], 1, Len(history[id])) = history[id]
                 /\ history'[id][Len(history'[id])].old_status = reports[id].status
                 /\ history'[id][Len(history'[id])].new_status = reports'[id].status
            ELSE history'[id] = history[id]]_vars

C4_Witness ==
  /\ res.op = "transitionStatus" /\ res.code = 200 /\ res.prior = res.status
  /\ res.id \in DOMAIN history /\ Len(history[res.id]) = 1

\* C5: an update request with a schema-valid body by a citizen on their own report whose
\* status is not pending is answered 403, and no update request by a citizen on their
\* own non-pending report changes any report or history row.
C5_CitizenUpdateOnlyWhilePending ==
  [][\A id \in DOMAIN reports :
       (/\ res'.op = "update" /\ res'.id = id /\ role(res'.actor) = "citizen"
        /\ reports[id].user_id = res'.actor /\ reports[id].status # "pending")
       => (/\ res'.code \in {400, 403}
           /\ res'.title # BadTitle => res'.code = 403
           /\ reports' = reports
           /\ history' = history)]_vars

C5_Witness ==
  /\ res.op = "update" /\ res.code = 403 /\ role(res.actor) = "citizen"
  /\ res.id \in DOMAIN reports /\ reports[res.id].user_id = res.actor
  /\ reports[res.id].status = "in_progress" /\ reports[res.id].title = "t1"

\* the requester may delete the report: citizen, author, pending
mayDelete(u, id) ==
  /\ role(u) = "citizen"
  /\ id \in DOMAIN reports
  /\ reports[id].user_id = u
  /\ reports[id].status = "pending"

\* C6: a report row disappears only in a delete call by a citizen who authored it while
\* it is pending; any other delete call is rejected and changes neither the rows nor the
\* bucket.
C6_DeleteOnlyOwnPendingByCitizen ==
  [][/\ \A id \in DOMAIN reports \ DOMAIN reports' :
          res'.op = "delete" /\ res'.id = id /\ mayDelete(res'.actor, id)
     /\ (res'.op = "delete" /\ ~mayDelete(res'.actor, res'.id))
          => (res'.code \in {403, 404, 500} /\ reports' = reports /\ store' = store
              /\ history' = history)]_vars

C6_Witness ==
  /\ res.op = "delete" /\ res.code = 403 /\ role(res.actor) = "citizen"
  /\ res.id \in DOMAIN reports /\ reports[res.id].user_id = res.actor
  /\ reports[res.id].status # "pending"
  /\ store # {}

\* C7 (as claimed): a read answers 200 with the report when it exists and the requester
\* is an authority or its author, and 404 with no report data otherwise.
C7_ReadFoundOrNotFound ==
  res.op = "read"
  => IF res.id \in DOMAIN reports
          /\ (role(res.actor) = "authority" \/ reports[res.id].user_id = res.actor)
       THEN res.code = 200 /\ res.data = res.id
       ELSE res.code = 404 /\ res.data = 0

\* C8: every report in the page returned to a caller who is no authority was authored
\* by the caller.
C8_ListScopedToCaller ==
  (res.op = "list" /\ role(res.actor) # "authority")
  => \A i \in 1..Len(res.data) :
       res.data[i] \in DOMAIN reports /\ reports[res.data[i]].user_id = res.actor

C8_Witness ==
  /\ res.op = "list" /\ role(res.actor) # "authority"
  /\ Len(res.data) >= 1
  /\ \E r \in DOMAIN reports : reports[r].user_id # res.actor

\* rows of report_votes of report r with vote type t
voteRows(r, t) == {k \in DOMAIN votes : k[1] = r /\ votes[k] = t}

\* C9 (as claimed): the counters of every report equal the numbers of its current vote
\* rows of each type, and neither is negative.
C9_CountersMatchVotes ==
  \A r \in DOMAIN reports :
    /\ upvotes[r] = Cardinality(voteRows(r, "upvote"))
    /\ downvotes[r] = Cardinality(voteRows(r, "downvote"))
    /\ upvotes[r] >= 0
    /\ downvotes[r] >= 0

\* C10: a create call whose inference failed, timed out or was skipped (no image) and
\* whose uploads and insert succeeded answers 201 and persists the report with hazard
\* type "other", confidence 0 and status "pending"; inference is never the step a
\* create call fails at.
C10_InferenceIsBestEffort ==
  [][(res'.op = "create" /\ res'.inference \in {"failed", "skipped"})
       => /\ res'.stage \in {"validation", "nofiles", "upload", "insert", "done"}
          /\ res'.stage = "done"
               => /\ res'.code = 201
                  /\ res'.id \in DOMAIN reports'
                  /\ reports'[res'.id].hazard_type = "other"
                  /\ reports'[res'.id].confidence_score = 0
                  /\ reports'[res'.id].status = "pending"]_vars

C10_Witness ==
  /\ res.op = "create" /\ res.inference = "failed" /\ res.code = 201
  /\ reports[res.id].hazard_type = "other" /\ reports[res.id].confidence_score = 0

\* C11: a create call that persists a report row answers 201 with that row, whatever
\* happens to the notification of the authorities (lookup, token lookup, delivery),
\* and the row stays.
C11_NotificationNeverFailsCreate ==
  [][(res'.op = "create" /\ DOMAIN reports' # DOMAIN reports)
       => /\ res'.code = 201
          /\ DOMAIN reports' = DOMAIN reports \cup {res'.id}
          /\ res'.id \notin DOMAIN reports
          /\ res'.id \in DOMAIN reports']_vars

C11_Witness ==
  /\ res.op = "create" /\ res.code = 201 /\ res.id \in DOMAIN reports
  /\ res.sent = Authorities /\ res.delivered = {}

\* C12: a successful status call pushes to the author exactly when the new status
\* differs from the prior one and is in_progress, resolved or rejected; the written
\* status stays whatever happens to the push; a failed call writes and sends nothing.
C12_StatusPushIffChanged ==
  [][\A id \in DOMAIN reports :
       (res'.op = "transitionStatus" /\ res'.id = id)
       => IF res'.code = 200
            THEN /\ res'.sent = IF /\ reports[id].status # res'.status
                                   /\ res'.status \in {"in_progress", "resolved", "rejected"}
                                  THEN {reports[id].user_id} ELSE {}
                 /\ id \in DOMAIN reports' /\ reports'[id].status = res'.status
            ELSE res'.sent = {} /\ reports' = reports]_vars

C12_Witness ==
  /\ res.op = "transitionStatus" /\ res.code = 200 /\ res.id \in DOMAIN reports
  /\ res.sent = {reports[res.id].user_id} /\ res.delivered = {}
  /\ res.prior # res.status /\ reports[res.id].status = res.status

\* C13: every persisted report has media_url and media_type of the same length, and
\* position i of both names one uploaded file: media_url[i] is the public URL of the
\* key that was uploaded at position i with mimetype media_type[i].
C13_MediaArraysAligned ==
  \A id \in DOMAIN reports :
    LET r == reports[id]
    IN /\ Len(r.media_url) = Len(r.media_type)
       /\ Len(r.media_url) >= 1
       /\ \A i \in 1..Len(r.media_url) :
            \E t \in 0..MaxTime :
              r.media_url[i] = publicUrlOf("reports", fileName(r.user_id, t, i - 1, r.media_type[i]))

\* C14: a create call without media is answered 400 and stops before the uploads: no
\* key is written, no row inserted; and every persisted report has at least one
\* media reference.
C14_NoMediaRejected ==
  [][/\ (res'.op = "create" /\ res'.nfiles = 0)
         => /\ res'.code = 400
            /\ res'.stage \in {"validation", "nofiles"}
            /\ res'.uploaded = {}
            /\ store' = store /\ reports' = reports /\ history' = history
            /\ nextId' = nextId
     /\ \A id \in DOMAIN reports' : Len(reports'[id].media_url) >= 1]_vars

C14_Witness ==
  res.op = "create" /\ res.nfiles = 0 /\ res.code = 400 /\ res.stage = "nofiles"

\* C15: a status call by a user who is not an authority is answered 403 and changes
\* nothing; a successful call is by an authority and writes the status, the assignee
\* (the supplied one, else the acting user) and the resolution notes when supplied.
C15_AuthorityOnlyStatusWrite ==
  [][/\ (res'.op = "transitionStatus" /\ role(res'.actor) # "authority")
         => (res'.code = 403 /\ reports' = reports /\ history' = history)
     /\ \A id \in DOMAIN reports :
          (res'.op = "transitionStatus" /\ res'.id = id /\ res'.code = 200)
          => /\ role(res'.actor) = "authority"
             /\ id \in DOMAIN reports'
             /\ reports'[id].status = res'.status
             /\ reports'[id].assigned_to = IF res'.assignedTo # ABSENT THEN res'.assignedTo
                                           ELSE res'.actor
             /\ reports'[id].resolution_notes = IF res'.notes # ABSENT THEN res'.notes
                                                ELSE reports[id].resolution_notes]_vars

C15_Witness ==
  /\ res.op = "transitionStatus" /\ res.code = 200 /\ res.id \in DOMAIN reports
  /\ res.assignedTo = "c2" /\ reports[res.id].assigned_to = "c2"
  /\ res.notes = "fixed" /\ reports[res.id].resolution_notes = "fixed"
  /\ reports[res.id].status = res.status /\ res.prior # res.status

\* C16: registering, with a well-formed body and the identity provider answering, an
\* email that is already registered is answered with status 409 and error.statusCode 409, and creates no account or profile.
C16_DuplicateRegistrationConflict ==
  [][(res'.op = "register" /\ res'.valid /\ res'.provider /\ res'.email \in accounts)
       => /\ res'.code = 409 /\ res'.statusCode = 409
          /\ accounts' = accounts /\ profiles' = profiles]_vars

\* C17: every error response (of a route handler, of the authentication and role
\* middleware, of the upload error handler, of errorHandler) has success = false and an
\* error.statusCode equal to the HTTP status of the response; a response with
\* success = false is an error response
C17_ErrorEnvelopeMirrorsStatus ==
  /\ res.code >= 400 => (res.success = FALSE /\ res.statusCode = res.code)
  /\ res.success = FALSE => (res.code >= 400 /\ res.statusCode = res.code)

\* an unexpected upload field passed on by handleUploadError and answered by errorHandler
C17_Witness ==
  /\ res.op = "upload" /\ res.code = 500 /\ res.success = FALSE /\ res.statusCode = 500
  /\ res.message = "Internal Server Error"

\* texts of exceptions thrown by the collaborators: the database on the insert of a
\* report, the identity provider, the insert of the profile row
InternalMessages ==
  {"database error", "fetch failed", "Failed to create user profile: insert failed"}

\* C18: in production no error response carries the text of an exception thrown by a
\* collaborator
C18_NoInternalMessageInProduction ==
  (NodeEnv = "production" /\ res.code >= 400) => res.message \notin InternalMessages

\* C19: GET /users/:id/reports called by an authority returns only reports whose
\* user_id is :id
C19_UserReportsOnlyOfThatUser ==
  (res.op = "userReports" /\ res.code = 200)
    => \A i \in 1..Len(res.data) : reports[res.data[i]].user_id = res.id

\* C20: a list call with a centre latitude, a centre longitude and a radius (latitude 0
\* included) returns only reports within the radius of the centre, and when no report
\* lies within the radius it returns an empty page without running the list query
C20_RadiusFilterHonoured ==
  (res.op = "list" /\ res.code = 200 /\ res.latitude # NoNumber /\ res.longitude # NoNumber
     /\ res.radius # NoNumber)
    => /\ \A i \in 1..Len(res.data) :
            distanceMeters(res.latitude, res.longitude,
                           reports[res.data[i]].latitude, reports[res.data[i]].longitude)
              <= res.radius
       /\ get_reports_within_radius(reports, res.latitude, res.longitude, res.radius) = {}
            => (res.data = <<>> /\ ~res.ranQuery)

\* C21: a radius query with radius 0 is answered with exactly the reports (visible to
\* the caller) whose coordinates equal the centre, and with no other report
C21_ZeroRadiusExactMatch ==
  (res.op = "list" /\ res.radius = 0 /\ res.latitude # NoNumber /\ res.longitude # NoNumber)
    => /\ res.code = 200
       /\ Range(res.data) =
            {r \in DOMAIN reports :
               /\ rlsFilter(reports[r], res.actor, role(res.actor) = "authority")
               /\ reports[r].latitude = res.latitude
               /\ reports[r].longitude = res.longitude}

\* C22: a report created with one image while inference fails has hazard_type "other",
\* confidence_score 0 and status "pending"; an authority's transition of a pending report
\* without history to "resolved" succeeds and leaves exactly one history row
\* (pending -> resolved); the author's delete of a report that is not pending is answered
\* 403 and changes nothing
C22_CreateResolveDeleteRejected ==
  [][/\ (res'.op = "create" /\ res'.code = 201 /\ res'.inference = "failed")
          => /\ res'.id \in DOMAIN reports'
             /\ reports'[res'.id].hazard_type = "other"
             /\ reports'[res'.id].confidence_score = 0
             /\ reports'[res'.id].status = "pending"
     /\ \A id \in DOMAIN reports :
          /\ (/\ res'.op = "transitionStatus" /\ res'.id = id
              /\ role(res'.actor) = "authority" /\ res'.status = "resolved"
              /\ reports[id].status = "pending" /\ history[id] = <<>>)
               => /\ res'.code = 200
                  /\ reports'[id].status = "resolved"
                  /\ Len(history'[id]) = 1
                  /\ history'[id][1].old_status = "pending"
                  /\ history'[id][1].new_status = "resolved"
          /\ (/\ res'.op = "delete" /\ res'.id = id /\ res'.actor = reports[id].user_id
              /\ reports[id].status # "pending")
               => /\ res'.code = 403
                  /\ reports' = reports
                  /\ history' = history
                  /\ store' = store]_vars

\* the end of the sequence: the author's delete of the resolved report was refused
C22_Witness ==
  /\ res.op = "delete" /\ res.code = 403 /\ res.id \in DOMAIN reports
  /\ res.actor = reports[res.id].user_id
  /\ reports[res.id].status = "resolved"
  /\ reports[res.id].hazard_type = "other" /\ reports[res.id].confidence_score = 0
  /\ Len(history[res.id]) = 1
  /\ history[res.id][1].old_status = "pending" /\ history[res.id][1].new_status = "resolved"

\* C23: the history row written by a status transition records as changed_by the user
\* who performed the transition, also when an assignee other than that user is supplied
C23_HistoryActorIsTransitioner ==
  [][\A id \in DOMAIN reports :
       (/\ res'.op = "transitionStatus" /\ res'.id = id /\ res'.code = 200
        /\ id \in DOMAIN history' /\ Len(history'[id]) = Len(history[id]) + 1)
       => history'[id][Len(history'[id])].changed_by = res'.actor]_vars

\* C24: GET /reports/statistics is served by the statistics handler: an authority gets
\* the statistics, anyone else 403; it is never handled as the lookup of a report
C24_StatisticsRouteReached ==
  (res.op = "get" /\ res.path = "statistics")
    => /\ res.handler = "statistics"
       /\ IF role(res.actor) = "authority"
            THEN res.code = 200 /\ res.data = report_statistics(reports)
            ELSE res.code = 403

\* C25: a delete that gets to the media attempts, before the row is deleted, one deletion
\* per media item of the report, each for the key under which that item was uploaded;
\* a failing media deletion stops neither the other deletions nor the row deletion, and
\* the call answers 200 when the row deletion succeeds
C25_MediaDeletionBestEffort ==
  [][\A id \in DOMAIN reports :
       (/\ res'.op = "delete" /\ res'.id = id /\ res'.actor = reports[id].user_id
        /\ reports[id].status = "pending")
       => /\ Len(res'.attempted) = Len(reports[id].media_url)
          /\ \A i \in 1..Len(res'.attempted) :
               \E t \in 0..MaxTime :
                 res'.attempted[i] = fileName(reports[id].user_id, t, i - 1, reports[id].media_type[i])
          /\ res'.code = 200 => id \notin DOMAIN reports'
          /\ res'.code \in {200, 500}
          /\ res'.code = 500 => reports' = reports]_vars

\* C30: the storage path that delete derives from a stored media URL is the key under
\* which create uploaded the item: after a successful delete by the author without
\* storage errors none of the keys of the report's media is left in the store
C30_MediaKeyRoundTrip ==
  [][\A id \in DOMAIN reports :
       (/\ res'.op = "delete" /\ res'.id = id /\ res'.code = 200 /\ res'.storageErrors = {})
       => \A i \in 1..Len(reports[id].media_url) : \A t \in 0..MaxTime :
            fileName(reports[id].user_id, t, i - 1, reports[id].media_type[i]) \notin store']_vars

\* C26: the write of a citizen's update never modifies a report whose status is not
\* pending at the moment the write is applied: when the authority's status write landed
\* after the citizen's pending check, the citizen's write changes nothing
C26_UpdateWriteOnlyWhilePending ==
  [][(/\ inflight.op = "update" /\ inflight' = idle
      /\ inflight.id \in DOMAIN reports
      /\ reports[inflight.id].status # "pending")
     => (reports' = reports /\ history' = history)]_vars

\* C27: a report whose status is not pending at the moment of the row deletion is never
\* deleted by a citizen's delete, and none of its media is removed from the store
C27_DeleteWriteOnlyWhilePending ==
  [][(/\ inflight.op = "delete" /\ inflight' = idle
      /\ inflight.id \in DOMAIN reports
      /\ reports[inflight.id].status # "pending")
     => (reports' = reports /\ history' = history /\ store' = store)]_vars

\* C29: removing a push token leaves the tokens of every user other than the requester
\* unchanged: a token row is deleted only if it belongs to the requester
C29_RemoveOnlyOwnToken ==
  [][res'.op = "removeToken"
     => \A t \in DOMAIN tokens :
          tokens[t] # res'.actor => (t \in DOMAIN tokens' /\ tokens'[t] = tokens[t])]_vars

\* C28: whenever create answers with a failure, at whichever step, the store holds no
\* key uploaded by that call: the store is as it was before the call
C28_FailedCreateLeavesNoMedia ==
  [][(res'.op = "create" /\ res'.code >= 400) => store' = store]_vars

====
